---- MODULE Spec2Model ----
(***************************************************************************)
(* Model of the dense-matrix kernel of examples/cpp-java-python-engine:    *)
(* the value type math_engine::Matrix (engine/src/matrix.cpp) and the      *)
(* opaque-handle C API built on it (engine/src/engine.cpp).                *)
(*                                                                         *)
(* A Matrix is a record [rows, cols, data]; data is the std::vector, a     *)
(* sequence indexed from 1, so the C++ element data_[p] is data[p + 1].    *)
(* Element values are integers: the sums and products of the small         *)
(* integers used here are exact in IEEE-754 double precision.              *)
(* size_t arithmetic is arithmetic modulo SizeMod = 2^SizeBits.            *)
(***************************************************************************)
EXTENDS Integers, Sequences, FiniteSets, TLC

\* ------------------------------------------------------------------ bounds

\* Width of size_t in the model (the real one is 64; TLC's integers are 32-bit).
SizeBits == 4
\* Largest row / column count passed to the boundary functions.
MaxDim == 2
\* Number of distinct addresses operator new can hand out.
MaxHandles == 3
\* Number of doubles the heap has room for.
MaxCells == 5
\* Largest magnitude of an element the boundary specification lets a result hold.
MaxVal == 3
\* Value-type specification: operand buffers start at a value in 0..MaxSeed.
MaxSeed == 5

\* ------------------------------------------------------------- size_t, errors

SizeMod == 2 ^ SizeBits

SizeMul(a, b) == (a * b) % SizeMod

SizeAdd(a, b) == (a + b) % SizeMod

NULL == 0

Handles == 1..MaxHandles

NoMatrix == [rows |-> 0, cols |-> 0, data |-> <<>>]

\* The exceptions the code throws: the C++ class and the what() message.
NoException == [type |-> "none", what |-> ""]

InvalidDimension ==
    [type |-> "invalid_argument", what |-> "Matrix dimensions must be positive"]

SizeMismatch ==
    [type |-> "invalid_argument", what |-> "Data size does not match matrix dimensions"]

IndexOutOfRange == [type |-> "out_of_range", what |-> "Matrix index out of range"]

DimensionMismatchAdd ==
    [type |-> "invalid_argument", what |-> "Matrix dimensions must match for addition"]

DimensionMismatchMul ==
    [type |-> "invalid_argument", what |-> "Invalid matrix dimensions for multiplication"]

Ok(m) == [ok |-> TRUE, val |-> m, exc |-> NoException]

Throw(exc) == [ok |-> FALSE, val |-> NoMatrix, exc |-> exc]

\* A failed allocation: operator new or std::vector throws std::bad_alloc.
BadAlloc == Throw([type |-> "bad_alloc", what |-> "std::bad_alloc"])

\* std::vector<double>(n, 0.0)
ZeroData(n) == [i \in 1..n |-> 0]

\* ------------------------------------------------------------- Matrix (matrix.cpp)

\* Construct without the check of the dimensions.
ConstructNoCheck(rows, cols, oom) ==
    LET n == SizeMul(rows, cols) IN
    IF oom /\ n > 0 THEN BadAlloc
    ELSE Ok([rows |-> rows, cols |-> cols, data |-> ZeroData(n)])

\* Matrix::Matrix(rows, cols): the initializer list builds data_ (rows * cols
\* zeros, which allocates when the count is not 0) before the body checks the
\* dimensions. oom: the buffer allocation fails.
Construct(rows, cols, oom) ==
    LET n == SizeMul(rows, cols) IN
    IF oom /\ n > 0 THEN BadAlloc
    ELSE IF rows = 0 \/ cols = 0
         THEN Throw(InvalidDimension)
         ELSE Ok([rows |-> rows, cols |-> cols, data |-> ZeroData(n)])

\* Construct3 with its two checks in the other order.
Construct3SizeFirst(rows, cols, data, oom) ==
    IF oom /\ Len(data) > 0 THEN BadAlloc
    ELSE IF Len(data) # SizeMul(rows, cols)
         THEN Throw(SizeMismatch)
         ELSE IF rows = 0 \/ cols = 0
              THEN Throw(InvalidDimension)
              ELSE Ok([rows |-> rows, cols |-> cols, data |-> data])

\* Matrix::Matrix(rows, cols, data): data_ is copied first, then the two checks.
Construct3(rows, cols, data, oom) ==
    IF oom /\ Len(data) > 0 THEN BadAlloc
    ELSE IF rows = 0 \/ cols = 0
         THEN Throw(InvalidDimension)
         ELSE IF Len(data) # SizeMul(rows, cols)
              THEN Throw(SizeMismatch)
              ELSE Ok([rows |-> rows, cols |-> cols, data |-> data])

\* The bounds check of Matrix::at.
AtInBounds(m, row, col) == ~(row >= m.rows \/ col >= m.cols)

\* The buffer index Matrix::at returns a reference to: row * cols_ + col.
AtIndex(m, row, col) == SizeAdd(SizeMul(row, m.cols), col)

\* Matrix::at: the index of the element referred to, or out_of_range.
At(m, row, col) ==
    IF ~AtInBounds(m, row, col)
    THEN [ok |-> FALSE, idx |-> 0, exc |-> IndexOutOfRange]
    ELSE [ok |-> TRUE, idx |-> AtIndex(m, row, col), exc |-> NoException]

\* Read through at(row, col); used inside the loops, whose guards keep the
\* coordinates inside the bounds check.
Elem(m, row, col) == m.data[At(m, row, col).idx + 1]

\* Write through at(row, col) = v.
SetElem(m, row, col, v) == [m EXCEPT !.data[At(m, row, col).idx + 1] = v]

\* The loop of operator+: for i < data_.size(): result.data_[i] = data_[i] + other.data_[i].
RECURSIVE AddLoop(_, _, _, _)
AddLoop(res, a, b, i) ==
    IF i < Len(a.data)
    THEN AddLoop([res EXCEPT !.data[i + 1] = a.data[i + 1] + b.data[i + 1]], a, b, i + 1)
    ELSE res

\* Matrix::operator+
Add(a, b, oom) ==
    IF a.rows # b.rows \/ a.cols # b.cols
    THEN Throw(DimensionMismatchAdd)
    ELSE LET r == Construct(a.rows, a.cols, oom) IN
         IF ~r.ok THEN r ELSE Ok(AddLoop(r.val, a, b, 0))

\* DotLoop stopping one term early.
RECURSIVE DotLoopShort(_, _, _, _, _, _)
DotLoopShort(a, b, i, j, k, sum) ==
    IF k + 1 < a.cols
    THEN DotLoopShort(a, b, i, j, k + 1, sum + Elem(a, i, k) * Elem(b, k, j))
    ELSE sum

\* The innermost loop of operator*: sum += at(i, k) * other.at(k, j), k ascending.
RECURSIVE DotLoop(_, _, _, _, _, _)
DotLoop(a, b, i, j, k, sum) ==
    IF k < a.cols
    THEN DotLoop(a, b, i, j, k + 1, sum + Elem(a, i, k) * Elem(b, k, j))
    ELSE sum

\* The two outer loops of operator*: result.at(i, j) = sum.
RECURSIVE MulLoop(_, _, _, _, _)
MulLoop(res, a, b, i, j) ==
    IF i >= a.rows THEN res
    ELSE IF j >= b.cols THEN MulLoop(res, a, b, i + 1, 0)
    ELSE MulLoop(SetElem(res, i, j, DotLoop(a, b, i, j, 0, 0)), a, b, i, j + 1)

\* operator* without the check of the inner dimensions.
MultiplyNoCheck(a, b, oom) ==
    LET r == Construct(a.rows, b.cols, oom) IN
    IF ~r.ok THEN r ELSE Ok(MulLoop(r.val, a, b, 0, 0))

\* Matrix::operator*
Multiply(a, b, oom) ==
    IF a.cols # b.rows
    THEN Throw(DimensionMismatchMul)
    ELSE LET r == Construct(a.rows, b.cols, oom) IN
         IF ~r.ok THEN r ELSE Ok(MulLoop(r.val, a, b, 0, 0))

\* TransposeLoop writing result.at(i, j) instead of result.at(j, i).
RECURSIVE TransposeLoopNoSwap(_, _, _, _)
TransposeLoopNoSwap(res, m, i, j) ==
    IF i >= m.rows THEN res
    ELSE IF j >= m.cols THEN TransposeLoopNoSwap(res, m, i + 1, 0)
    ELSE TransposeLoopNoSwap(SetElem(res, i, j, Elem(m, i, j)), m, i, j + 1)

\* The loops of transpose: result.at(j, i) = at(i, j).
RECURSIVE TransposeLoop(_, _, _, _)
TransposeLoop(res, m, i, j) ==
    IF i >= m.rows THEN res
    ELSE IF j >= m.cols THEN TransposeLoop(res, m, i + 1, 0)
    ELSE TransposeLoop(SetElem(res, j, i, Elem(m, i, j)), m, i, j + 1)

\* Matrix::transpose
Transpose(m, oom) ==
    LET r == Construct(m.cols, m.rows, oom) IN
    IF ~r.ok THEN r ELSE Ok(TransposeLoop(r.val, m, 0, 0))

\* ------------------------------------------------------------- state

\* heap:  the Matrix objects allocated with new and not yet deleted, by address
\*        (DOMAIN heap is the set of live handles).
\* last:  the call of a boundary function that has just returned, until the
\*        caller goes on (op = "init": none): its name, its arguments,
\*        what it returned, the exception that left it ("none": none did), the
\*        caller's buffer (set_data: as passed; get_data: as left by the call),
\*        and whether an allocation failed during it.
\* vcall: the most recent call made directly on the value type (value-type
\*        specifications only).
VARIABLES heap, last, vcall

vars == <<heap, last, vcall>>

Live == DOMAIN heap

Free == Handles \ Live

\* operator new handing out an address that may still be in use.
NewAddrsAny == Handles

\* The addresses operator new may return: any address not in use; NULL stands
\* for an exhausted address space (operator new then throws bad_alloc).
NewAddrs == IF Free = {} THEN {NULL} ELSE Free

NoCall == [op |-> "init", a |-> 0, b |-> 0, ret |-> 0, esc |-> "none",
           buf |-> <<>>, oom |-> FALSE]

NoVCall == [op |-> "init", a |-> NoMatrix, b |-> NoMatrix, rows |-> 0, cols |-> 0,
            data |-> <<>>, row |-> 0, col |-> 0, oom |-> FALSE, res |-> Throw(NoException),
            acc |-> At(NoMatrix, 0, 0)]

Init == heap = <<>> /\ last = NoCall /\ vcall = NoVCall

\* ------------------------------------------------------------- C API (engine.cpp)

\* new math_engine::Matrix(...): operator new, then the constructor's result r.
\* oom: the allocations attempted during the call fail.
OperatorNew(r, addr, oom) == IF addr = NULL \/ oom THEN BadAlloc ELSE r

Store(h0, addr, m) == [h \in DOMAIN h0 \cup {addr} |-> IF h = addr THEN m ELSE h0[h]]

\* The boundary function without its catch (...): the exception leaves the call.
CatchAllLeaky(h0, r, addr) ==
    IF r.ok THEN [ret |-> addr, heap |-> Store(h0, addr, r.val), esc |-> "none"]
    ELSE [ret |-> NULL, heap |-> h0, esc |-> r.exc.type]

\* try { ... return new Matrix(...); } catch (...) { return nullptr; }
\* r is the outcome of the try block; the Matrix it built is stored at addr.
CatchAll(h0, r, addr) ==
    IF r.ok THEN [ret |-> addr, heap |-> Store(h0, addr, r.val), esc |-> "none"]
    ELSE [ret |-> NULL, heap |-> h0, esc |-> "none"]

matrix_create(h0, rows, cols, addr, oom) ==
    CatchAll(h0, OperatorNew(Construct(rows, cols, oom), addr, oom), addr)

\* delete static_cast<Matrix*>(matrix); deleting a null pointer does nothing.
matrix_destroy(h0, h) == [x \in DOMAIN h0 \ {h} |-> h0[x]]

\* std::copy(first, first + n, dest): the first n elements of src over dest.
CopyN(src, n, dest) == [i \in 1..Len(dest) |-> IF i <= n THEN src[i] ELSE dest[i]]

matrix_set_data(h0, h, buf) ==
    [h0 EXCEPT ![h].data = CopyN(buf, SizeMul(h0[h].rows, h0[h].cols), h0[h].data)]

matrix_get_data(h0, h, out) == CopyN(h0[h].data, SizeMul(h0[h].rows, h0[h].cols), out)

\* auto result = *ma * *mb; return new Matrix(std::move(result));
\* the move constructor takes over result's buffer and allocates nothing.
matrix_multiply(h0, a, b, addr, oom) ==
    LET r == Multiply(h0[a], h0[b], oom) IN
    CatchAll(h0, IF r.ok THEN OperatorNew(r, addr, oom) ELSE r, addr)

\* add storing the sum in its first operand and returning that handle.
matrix_add_inplace(h0, a, b, addr, oom) ==
    LET r == Add(h0[a], h0[b], oom) IN
    IF r.ok THEN [ret |-> a, heap |-> [h0 EXCEPT ![a] = r.val], esc |-> "none"]
    ELSE [ret |-> NULL, heap |-> h0, esc |-> "none"]

matrix_add(h0, a, b, addr, oom) ==
    LET r == Add(h0[a], h0[b], oom) IN
    CatchAll(h0, IF r.ok THEN OperatorNew(r, addr, oom) ELSE r, addr)

\* transpose done in place on the Matrix the handle refers to.
matrix_transpose_inplace(h0, h, addr, oom) ==
    LET r == Transpose(h0[h], oom) IN
    IF r.ok THEN [ret |-> h, heap |-> [h0 EXCEPT ![h] = r.val], esc |-> "none"]
    ELSE [ret |-> NULL, heap |-> h0, esc |-> "none"]

matrix_transpose(h0, h, addr, oom) ==
    LET r == Transpose(h0[h], oom) IN
    CatchAll(h0, IF r.ok THEN OperatorNew(r, addr, oom) ELSE r, addr)

matrix_rows(h0, h) == h0[h].rows

matrix_cols(h0, h) == h0[h].cols

\* ------------------------------------------------------------- the caller

\* The caller's buffers: n or n + 1 doubles holding 1, 2, 3, ...
InBuffers(n) == {[i \in 1..k |-> i] : k \in {n, n + 1}}

\* The buffers get_data is given: n or n + 1 doubles, all holding -1.
OutBuffers(n) == {[i \in 1..k |-> 0 - 1] : k \in {n, n + 1}}

\* The doubles held by the Matrices at the addresses hs.
RECURSIVE CellsOf(_, _)
CellsOf(h0, hs) ==
    IF hs = {} THEN 0
    ELSE LET h == CHOOSE x \in hs : TRUE IN Len(h0[h].data) + CellsOf(h0, hs \ {h})

\* The Matrices of h0 fit in the heap.
Fits(h0) == CellsOf(h0, DOMAIN h0) <= MaxCells

InRange(m) == \A i \in 1..Len(m.data) : m.data[i] >= 0 - MaxVal /\ m.data[i] <= MaxVal

\* Whether an allocation was made to fail: an exhausted address space is a
\* failure of operator new.
AllocFailed(addr, oom) == addr = NULL \/ oom

\* The interface is synchronous and single-threaded: a call is made only by a
\* caller that is in no other call.
Idle == last.op = "init"

Called(op, a, b, res, buf, addr, oom) ==
    last' = [op |-> op, a |-> a, b |-> b, ret |-> res.ret, esc |-> res.esc,
             buf |-> buf, oom |-> AllocFailed(addr, oom)]

Create ==
    /\ Idle
    /\ \E rows \in 0..MaxDim, cols \in 0..MaxDim, addr \in NewAddrs, oom \in BOOLEAN :
        LET res == matrix_create(heap, rows, cols, addr, oom) IN
        /\ Fits(res.heap)
        /\ heap' = res.heap
        /\ Called("create", rows, cols, res, <<>>, addr, oom)
        /\ UNCHANGED vcall

Destroy ==
    /\ Idle
    /\ \E h \in Live \cup {NULL} :
        /\ heap' = matrix_destroy(heap, h)
        /\ last' = [NoCall EXCEPT !.op = "destroy", !.a = h]
        /\ UNCHANGED vcall

SetData ==
    /\ Idle
    /\ \E h \in Live :
        \E buf \in InBuffers(Len(heap[h].data)) :
            /\ heap' = matrix_set_data(heap, h, buf)
            /\ last' = [NoCall EXCEPT !.op = "set_data", !.a = h, !.buf = buf]
            /\ UNCHANGED vcall

GetData ==
    /\ Idle
    /\ \E h \in Live :
        \E out \in OutBuffers(Len(heap[h].data)) :
            /\ last' = [NoCall EXCEPT !.op = "get_data", !.a = h,
                                      !.buf = matrix_get_data(heap, h, out)]
            /\ UNCHANGED <<heap, vcall>>

MultiplyCall ==
    /\ Idle
    /\ \E a \in Live, b \in Live, addr \in NewAddrs, oom \in BOOLEAN :
        LET res == matrix_multiply(heap, a, b, addr, oom) IN
        /\ res.ret # NULL => InRange(res.heap[res.ret])
        /\ Fits(res.heap)
        /\ heap' = res.heap
        /\ Called("multiply", a, b, res, <<>>, addr, oom)
        /\ UNCHANGED vcall

AddCall ==
    /\ Idle
    /\ \E a \in Live, b \in Live, addr \in NewAddrs, oom \in BOOLEAN :
        LET res == matrix_add(heap, a, b, addr, oom) IN
        /\ res.ret # NULL => InRange(res.heap[res.ret])
        /\ Fits(res.heap)
        /\ heap' = res.heap
        /\ Called("add", a, b, res, <<>>, addr, oom)
        /\ UNCHANGED vcall

TransposeCall ==
    /\ Idle
    /\ \E h \in Live, addr \in NewAddrs, oom \in BOOLEAN :
        LET res == matrix_transpose(heap, h, addr, oom) IN
        /\ Fits(res.heap)
        /\ heap' = res.heap
        /\ Called("transpose", h, 0, res, <<>>, addr, oom)
        /\ UNCHANGED vcall

RowsCall ==
    /\ Idle
    /\ \E h \in Live :
        /\ last' = [NoCall EXCEPT !.op = "rows", !.a = h, !.ret = matrix_rows(heap, h)]
        /\ UNCHANGED <<heap, vcall>>

ColsCall ==
    /\ Idle
    /\ \E h \in Live :
        /\ last' = [NoCall EXCEPT !.op = "cols", !.a = h, !.ret = matrix_cols(heap, h)]
        /\ UNCHANGED <<heap, vcall>>

\* The call has returned: the caller has its result and goes on to its next call.
Return ==
    /\ ~Idle
    /\ last' = NoCall
    /\ UNCHANGED <<heap, vcall>>

Next ==
    \/ Create
    \/ Destroy
    \/ SetData
    \/ GetData
    \/ MultiplyCall
    \/ AddCall
    \/ TransposeCall
    \/ RowsCall
    \/ ColsCall
    \/ Return

Spec == Init /\ [][Next]_vars

\* ------------------------------------------------------------- value-type callers

\* Buffers of n doubles: seed, seed + step, seed + 2 * step, ...
Ramp(n, seed, step) == [i \in 1..n |-> seed + step * (i - 1)]

Ramps(n) == {Ramp(n, seed, step) : seed \in 0..MaxSeed, step \in (0 - 1)..1}

\* The valid matrices a caller of the value type holds: built by the
\* three-argument constructor from a ramp.
Operands ==
    {Construct3(r, c, d, FALSE).val : <<r, c, d>> \in
        UNION {{<<r, c, d>> : d \in Ramps(r * c)} : <<r, c>> \in (1..MaxDim) \X (1..MaxDim)}}

\* A behaviour of the value-type specifications is one call on the value type
\* (two for transpose().transpose()) by a caller that has made none yet.
VConstruct ==
    /\ vcall.op = "init"
    /\ \E rows \in 0..MaxDim, cols \in 0..MaxDim, oom \in BOOLEAN :
        /\ vcall' = [NoVCall EXCEPT !.op = "construct", !.rows = rows, !.cols = cols,
                                    !.oom = oom, !.res = Construct(rows, cols, oom)]
        /\ UNCHANGED <<heap, last>>

VConstruct3 ==
    /\ vcall.op = "init"
    /\ \E rows \in 0..MaxDim, cols \in 0..MaxDim, n \in 0..(MaxDim * MaxDim + 1), oom \in BOOLEAN :
        \E data \in Ramps(n) :
            /\ vcall' = [NoVCall EXCEPT !.op = "construct3", !.rows = rows, !.cols = cols,
                                        !.data = data, !.oom = oom,
                                        !.res = Construct3(rows, cols, data, oom)]
            /\ UNCHANGED <<heap, last>>

VAt ==
    /\ vcall.op = "init"
    /\ \E m \in Operands, row \in 0..MaxDim, col \in 0..MaxDim :
        /\ vcall' = [NoVCall EXCEPT !.op = "at", !.a = m, !.row = row, !.col = col,
                                    !.acc = At(m, row, col)]
        /\ UNCHANGED <<heap, last>>

VAdd ==
    /\ vcall.op = "init"
    /\ \E a \in Operands, b \in Operands, oom \in BOOLEAN :
        /\ vcall' = [NoVCall EXCEPT !.op = "add", !.a = a, !.b = b, !.oom = oom,
                                    !.res = Add(a, b, oom)]
        /\ UNCHANGED <<heap, last>>

VMultiply ==
    /\ vcall.op = "init"
    /\ \E a \in Operands, b \in Operands, oom \in BOOLEAN :
        /\ vcall' = [NoVCall EXCEPT !.op = "multiply", !.a = a, !.b = b, !.oom = oom,
                                    !.res = Multiply(a, b, oom)]
        /\ UNCHANGED <<heap, last>>

VTranspose ==
    /\ vcall.op = "init"
    /\ \E m \in Operands, oom \in BOOLEAN :
        /\ vcall' = [NoVCall EXCEPT !.op = "transpose", !.a = m, !.oom = oom,
                                    !.res = Transpose(m, oom)]
        /\ UNCHANGED <<heap, last>>

\* m.transpose().transpose(): the second call, on the first call's result.
VTransposeAgain ==
    /\ vcall.op = "transpose"
    /\ vcall.res.ok
    /\ vcall' = [vcall EXCEPT !.op = "transpose2", !.res = Transpose(vcall.res.val, FALSE)]
    /\ UNCHANGED <<heap, last>>

NextValue ==
    \/ VConstruct
    \/ VConstruct3
    \/ VAt
    \/ VAdd
    \/ VMultiply
    \/ VTranspose
    \/ VTransposeAgain

\* The value type called directly, on operands of up to MaxDim x MaxDim.
SpecValue == Init /\ [][NextValue]_vars

\* Matrix(rows, cols) for any rows and cols of the size type, then at(row, col)
\* on the Matrix it built.
WConstruct ==
    /\ vcall.op = "init"
    /\ \E rows \in 0..(SizeMod - 1), cols \in 0..(SizeMod - 1), oom \in BOOLEAN :
        /\ vcall' = [NoVCall EXCEPT !.op = "construct", !.rows = rows, !.cols = cols,
                                    !.oom = oom, !.res = Construct(rows, cols, oom)]
        /\ UNCHANGED <<heap, last>>

WAt ==
    /\ vcall.op = "construct"
    /\ vcall.res.ok
    /\ \E row \in 0..(SizeMod - 1), col \in 0..(SizeMod - 1) :
           vcall' = [vcall EXCEPT !.op = "at", !.a = vcall.res.val, !.row = row, !.col = col,
                                  !.acc = At(vcall.res.val, row, col)]
    /\ UNCHANGED <<heap, last>>

NextWide ==
    \/ WConstruct
    \/ WAt

\* The value type over the whole range of the size type.
SpecWide == Init /\ [][NextWide]_vars

\* ------------------------------------------------------------- properties

\* Element (r, c) of a matrix as the data model defines it: row-major, at
\* position r * cols + c of the buffer.
Entry(m, r, c) == m.data[r * m.cols + c + 1]

Shaped(m, rows, cols) == m.rows = rows /\ m.cols = cols /\ Len(m.data) = rows * cols

Allocating == {"create", "add", "multiply", "transpose"}

C2_Create ==
    [][last'.op = "create" =>
        /\ last'.esc = "none"
        /\ (last'.a = 0 \/ last'.b = 0) => (last'.ret = NULL /\ heap' = heap)
        /\ last'.ret = NULL => heap' = heap
        /\ (last'.a > 0 /\ last'.b > 0 /\ ~last'.oom) =>
              /\ last'.ret # NULL
              /\ last'.ret \notin Live
              /\ DOMAIN heap' = Live \cup {last'.ret}
              /\ matrix_rows(heap', last'.ret) = last'.a
              /\ matrix_cols(heap', last'.ret) = last'.b
              /\ \A out \in OutBuffers(last'.a * last'.b) :
                    LET got == matrix_get_data(heap', last'.ret, out) IN
                    \A i \in 1..Len(out) :
                        got[i] = IF i <= last'.a * last'.b THEN 0 ELSE out[i]
    ]_vars

\* C2 witness: create(2, 2) has returned a handle.
C2_Witness ==
    /\ last.op = "create"
    /\ last.a = 2
    /\ last.b = 2
    /\ last.ret \in Live
    /\ heap[last.ret].data = <<0, 0, 0, 0>>

\* The operands of the call recorded in c do not fit: inner dimensions for
\* multiply, shapes for add.
Mismatch(h0, c) ==
    \/ c.op = "multiply" /\ h0[c.a].cols # h0[c.b].rows
    \/ c.op = "add" /\ (h0[c.a].rows # h0[c.b].rows \/ h0[c.a].cols # h0[c.b].cols)

\* C3: multiply on handles with cols(a) # rows(b), and add on handles of
\* different shapes, return the null handle, let no exception out, allocate
\* nothing and leave every live Matrix as it was.
C3_MismatchSentinel ==
    [][(last'.op \in {"multiply", "add"} /\ Mismatch(heap, last')) =>
        /\ last'.ret = NULL
        /\ last'.esc = "none"
        /\ heap' = heap
    ]_vars

\* C3 witness: a multiply of a 1 x 2 by a 1 x 2 holding data has returned null.
C3_Witness ==
    /\ last.op = "multiply"
    /\ last.ret = NULL
    /\ ~last.oom
    /\ last.a # last.b
    /\ heap[last.a].cols = 2
    /\ heap[last.b].rows = 1
    /\ heap[last.a].data # ZeroData(Len(heap[last.a].data))

\* C4: a live handle stays live, through any call, unless the call is destroy
\* of that very handle; destroy(h) ends h and leaves every other handle and its
\* Matrix alone; a non-null handle returned by create, add, multiply or
\* transpose was not live before the call and is live after it.
C4_HandleLifetime ==
    [][/\ \A h \in Live : h \in DOMAIN heap' \/ (last'.op = "destroy" /\ last'.a = h)
       /\ last'.op = "destroy" =>
             /\ last'.a \notin DOMAIN heap'
             /\ \A x \in Live \ {last'.a} : x \in DOMAIN heap' /\ heap'[x] = heap[x]
       /\ (last'.op \in Allocating /\ last'.ret # NULL) =>
             /\ last'.ret \notin Live
             /\ last'.ret \in DOMAIN heap'
       /\ DOMAIN heap' \subseteq Live \cup (IF last'.op \in Allocating THEN {last'.ret} ELSE {})
    ]_vars

\* C4 witness: destroy has ended one handle while two others stay live.
C4_Witness ==
    /\ last.op = "destroy"
    /\ last.a # NULL
    /\ last.a \notin Live
    /\ Cardinality(Live) = 2

\* C5: add, multiply and transpose leave every live Matrix (the operands,
\* aliased or not) exactly as it was, and a handle they return was not live
\* before; set_data changes no Matrix but the one it is called on.
C5_OperandsUnchanged ==
    [][/\ last'.op \in {"add", "multiply", "transpose"} =>
             /\ \A h \in Live : h \in DOMAIN heap' /\ heap'[h] = heap[h]
             /\ last'.ret # NULL => last'.ret \notin Live
       /\ last'.op = "set_data" =>
             \A h \in Live \ {last'.a} : h \in DOMAIN heap' /\ heap'[h] = heap[h]
    ]_vars

\* C5 witness: add(a, a) on a Matrix holding data has returned a new handle.
C5_Witness ==
    /\ last.op = "add"
    /\ last.a = last.b
    /\ last.ret \in Live
    /\ last.ret # last.a
    /\ last.a \in Live
    /\ heap[last.a].data # ZeroData(Len(heap[last.a].data))
    /\ heap[last.ret].data # heap[last.a].data

\* C6: no call changes the rows or cols of a Matrix that is live before and
\* after it; set_data overwrites the rows * cols elements with the first
\* rows * cols of the caller's buffer; rows and cols return the stored values.
C6_ShapeImmutable ==
    [][/\ \A h \in Live \cap DOMAIN heap' :
             /\ heap'[h].rows = heap[h].rows
             /\ heap'[h].cols = heap[h].cols
             /\ Len(heap'[h].data) = Len(heap[h].data)
       /\ last'.op = "set_data" =>
             \A i \in 1..(heap[last'.a].rows * heap[last'.a].cols) :
                 heap'[last'.a].data[i] = last'.buf[i]
       /\ last'.op = "rows" => last'.ret = heap[last'.a].rows
       /\ last'.op = "cols" => last'.ret = heap[last'.a].cols
    ]_vars

\* C6 witness: set_data from a buffer longer than needed has filled a
\* non-square Matrix.
C6_Witness ==
    /\ last.op = "set_data"
    /\ heap[last.a].rows # heap[last.a].cols
    /\ Len(last.buf) > Len(heap[last.a].data)
    /\ heap[last.a].data = <<1, 2>>

RECURSIVE SumTo(_, _)
SumTo(term, n) == IF n = 0 THEN 0 ELSE SumTo(term, n - 1) + term[n - 1]

\* The (i, j) entry of the matrix product: the sum over k of A[i][k] * B[k][j].
ProductEntry(a, b, i, j) ==
    SumTo([k \in 0..(a.cols - 1) |-> Entry(a, i, k) * Entry(b, k, j)], a.cols)

\* C7: Multiply(A, B) throws the dimension-mismatch exception exactly when
\* A.cols # B.rows; otherwise, unless an allocation failed, it returns a matrix
\* of shape (A.rows, B.cols) whose (i, j) entry is the sum over k of
\* A[i][k] * B[k][j].
C7_Multiply ==
    vcall.op = "multiply" =>
        /\ (vcall.res.exc = DimensionMismatchMul) <=> (vcall.a.cols # vcall.b.rows)
        /\ (vcall.a.cols = vcall.b.rows /\ ~vcall.oom) =>
              /\ vcall.res.ok
              /\ Shaped(vcall.res.val, vcall.a.rows, vcall.b.cols)
              /\ \A i \in 0..(vcall.a.rows - 1), j \in 0..(vcall.b.cols - 1) :
                    Entry(vcall.res.val, i, j) = ProductEntry(vcall.a, vcall.b, i, j)

\* C7 witness: [[1,2],[3,4]] * [[5,6],[7,8]] = [[19,22],[43,50]].
C7_Witness ==
    /\ vcall.op = "multiply"
    /\ vcall.a = [rows |-> 2, cols |-> 2, data |-> <<1, 2, 3, 4>>]
    /\ vcall.b = [rows |-> 2, cols |-> 2, data |-> <<5, 6, 7, 8>>]
    /\ vcall.res.ok
    /\ vcall.res.val = [rows |-> 2, cols |-> 2, data |-> <<19, 22, 43, 50>>]

\* C8: Transpose fails only when an allocation fails; its result has shape
\* (cols, rows) with result[j][i] = M[i][j]; transposing the result gives a
\* matrix of M's shape equal to M element by element.
C8_Transpose ==
    /\ vcall.op = "transpose" =>
          /\ vcall.res.ok <=> ~vcall.oom
          /\ vcall.res.ok =>
                /\ Shaped(vcall.res.val, vcall.a.cols, vcall.a.rows)
                /\ \A i \in 0..(vcall.a.rows - 1), j \in 0..(vcall.a.cols - 1) :
                      Entry(vcall.res.val, j, i) = Entry(vcall.a, i, j)
    /\ vcall.op = "transpose2" =>
          /\ vcall.res.ok
          /\ Shaped(vcall.res.val, vcall.a.rows, vcall.a.cols)
          /\ \A i \in 0..(vcall.a.rows - 1), j \in 0..(vcall.a.cols - 1) :
                Entry(vcall.res.val, i, j) = Entry(vcall.a, i, j)

\* C8 witness: a 2 x 2 matrix of four different values has been transposed twice.
C8_Witness ==
    /\ vcall.op = "transpose2"
    /\ vcall.a.rows = 2
    /\ vcall.a.cols = 2
    /\ vcall.a.data[2] # vcall.a.data[3]
    /\ vcall.res.val = vcall.a

\* The exceptions Add and Multiply throw for operands that do not fit.
DimensionMismatch == {DimensionMismatchAdd, DimensionMismatchMul}

C10_AccessInBuffer ==
    (vcall.op = "at" /\ vcall.acc.ok) => vcall.acc.idx < Len(vcall.a.data)

====
